---- MODULE Spec2Model ----
(***************************************************************************)
(* Model of search_wiki_article.py: the Config class and the WikiArticles  *)
(* facade over the wikipediaapi page-fetch service.                         *)
(*                                                                          *)
(* The external service (wikipediaapi.Wikipedia) is the environment: what   *)
(* it answers to a page request (the page with its links, no such page, or  *)
(* a transport fault) is chosen anew on every call.                         *)
(***************************************************************************)
EXTENDS Integers, Sequences, FiniteSets, TLC

VARIABLES
    config,       \* the Config object the facade holds (shared with its creator)
    wiki,         \* self.wiki: the service handle the facade holds
    wikipediaCalls, \* number of wikipediaapi.Wikipedia(...) constructor calls made
    fetches,      \* number of self.wiki.page(...) calls the service has seen
    fetched,      \* the self.wiki.page calls of the most recent invocation
    reads,        \* number of read operations invoked on the facade
    langCalls,    \* number of WikiArticles.set_language invocations
    configCalls,  \* number of direct Config.set_language invocations
    hist,         \* history: last facade set_language, direct Config updates since
    lastCall,     \* the most recent invocation and its arguments
    outcome       \* how the most recent invocation ended: return value or fault

vars == <<config, wiki, wikipediaCalls, fetches, fetched, reads,
          langCalls, configCalls, hist, lastCall, outcome>>

---------------------------------------------------------------------------
(* Bounds of the model *)

MaxLinks == 22        \* largest number of outbound links a page has
MaxLimit == 1         \* largest small positive limit passed to get_links
MaxNegLimit == 1      \* most negative limit passed to get_links
MaxReads == 1         \* read operations per behaviour
MaxLangOps == 2       \* set_language calls (facade or Config) per behaviour

(* Program constants *)

FullArticleLinkCap == 20     \* the slice bound [:20] of get_full_article

USER_AGENT == "MyApp/1.0 (your@email.com)"

DefaultLanguage == "en"

---------------------------------------------------------------------------
(* Inputs *)

Languages == {"en", "xx-unknown"}

Titles == {"python", "Atlantis"}

Faults == {"ConnectionError", "Timeout"}

\* Optional[int]: None is <<>>, an integer k is <<k>>
None == <<>>
Limits == {None} \cup {<<k>> : k \in (0 - MaxNegLimit)..MaxLimit} \cup {<<MaxLinks + 1>>}

LinkCounts == {0, 3, FullArticleLinkCap, MaxLinks}

\* what the service answers to one page request
Responses ==
    {[kind |-> "fault", fault |-> f] : f \in Faults}
    \cup {[kind |-> "absent"]}
    \cup {[kind |-> "page", nlinks |-> n] : n \in LinkCounts}

---------------------------------------------------------------------------
(* Python values *)

Return(v) == [kind |-> "return", value |-> v]
Raise(f) == [kind |-> "raise", fault |-> f]

\* faulty variant: the slice keeps one entry too many
PySliceToInclusive(seq, k) ==
    LET n == Len(seq)
        stop == IF k < 0 THEN (IF n + k + 1 < 0 THEN 0 ELSE n + k + 1)
                ELSE (IF k + 1 > n THEN n ELSE k + 1)
    IN SubSeq(seq, 1, stop)

\* seq[:k] for an integer k, as Python evaluates it
PySliceTo(seq, k) ==
    LET n == Len(seq)
        stop == IF k < 0 THEN (IF n + k < 0 THEN 0 ELSE n + k)
                ELSE (IF k > n THEN n ELSE k)
    IN SubSeq(seq, 1, stop)

\* truth value of an Optional[int]
Truthy(limit) == limit # None /\ limit[1] # 0

---------------------------------------------------------------------------
(* The external service *)

\* the i-th outbound link title of a page, in the order the service returns them
LinkAt(i) == (i * 7) % 29

ServiceLinks(n) == [i \in 1..n |-> LinkAt(i)]

ServiceSummary(title) == title \o " is a programming language."

ServiceSections == <<[title |-> "Overview", level |-> 1], [title |-> "History", level |-> 1]>>

ServiceCategories == <<[title |-> "Category:Programming languages", ns |-> 14]>>

\* the title the service reports for a page it holds
ServiceTitle(title) == IF title = "python" THEN "Python" ELSE title

\* the page object for a title, as the handle's language edition reports it
PageObject(handle, title, resp) ==
    IF resp.kind = "page"
    THEN [exists |-> TRUE,
          title |-> ServiceTitle(title),
          fullurl |-> "https://" \o handle.language \o ".wikipedia.org/wiki/" \o ServiceTitle(title),
          summary |-> ServiceSummary(ServiceTitle(title)),
          text |-> ServiceSummary(ServiceTitle(title)) \o " ...",
          categories |-> ServiceCategories,
          links |-> ServiceLinks(resp.nlinks),
          sections |-> ServiceSections]
    ELSE [exists |-> FALSE, title |-> title]

\* wikipediaapi.Wikipedia(user_agent=..., language=...): a fresh handle, or a fault
Wikipedia(user_agent, language, serial, ok) ==
    IF ok THEN Return([id |-> serial, user_agent |-> user_agent, language |-> language])
    ELSE Raise("AcquireError")

\* self.wiki.page(title) and the reads of the page object: the page, or a fault
wiki_page(handle, title, resp) ==
    IF resp.kind = "fault" THEN Raise(resp.fault)
    ELSE Return(PageObject(handle, title, resp))

---------------------------------------------------------------------------
(* class Config *)

Config_init(language) == [language |-> language]

\* faulty variant: an unrecognized code is rejected and the stored one kept
Config_set_language_validated(self, language) ==
    IF language \in {"en", "es", "fr", "de"} THEN [self EXCEPT !.language = language] ELSE self

Config_set_language(self, language) == [self EXCEPT !.language = language]

Config_to_dict(self) == [language |-> self.language]

---------------------------------------------------------------------------
(* class WikiArticles *)

\* WikiArticles.__init__: config or Config(), then the first handle
WikiArticles_init(cfg) ==
    LET c == IF cfg = None THEN Config_init(DefaultLanguage) ELSE cfg[1]
    IN [config |-> c,
        wiki |-> Wikipedia(USER_AGENT, c.language, 1, TRUE).value]

\* f"Page '{title}' does not exist"
NotExistMessage(title) == "Page '" \o title \o "' does not exist"

\* Each read operation yields its outcome and the self.wiki.page calls it made.

\* faulty variant: the page is requested a second time for its links
get_full_article_refetching(self, title, resp) ==
    LET r == wiki_page(self.wiki, title, resp)
        page == r.value
    IN [pages |-> IF r.kind = "return" /\ page.exists
                  THEN <<[wiki |-> self.wiki, title |-> title],
                         [wiki |-> self.wiki, title |-> title]>>
                  ELSE <<[wiki |-> self.wiki, title |-> title]>>,
        outcome |->
          IF r.kind = "raise" THEN r
          ELSE IF ~page.exists THEN Return([error |-> NotExistMessage(title)])
          ELSE Return([title |-> page.title,
                       url |-> page.fullurl,
                       summary |-> page.summary,
                       full_text |-> page.text,
                       categories |-> [i \in 1..Len(page.categories) |-> page.categories[i].title],
                       links |-> PySliceTo(page.links, FullArticleLinkCap),
                       sections |-> [i \in 1..Len(page.sections) |-> page.sections[i].title]])]

\* faulty variant: the [:20] slice is forgotten
get_full_article_uncapped(self, title, resp) ==
    LET r == wiki_page(self.wiki, title, resp)
        page == r.value
    IN [pages |-> <<[wiki |-> self.wiki, title |-> title]>>,
        outcome |->
          IF r.kind = "raise" THEN r
          ELSE IF ~page.exists THEN Return([error |-> NotExistMessage(title)])
          ELSE Return([title |-> page.title,
                       url |-> page.fullurl,
                       summary |-> page.summary,
                       full_text |-> page.text,
                       categories |-> [i \in 1..Len(page.categories) |-> page.categories[i].title],
                       links |-> page.links,
                       sections |-> [i \in 1..Len(page.sections) |-> page.sections[i].title]])]

get_full_article(self, title, resp) ==
    LET r == wiki_page(self.wiki, title, resp)
        page == r.value
    IN [pages |-> <<[wiki |-> self.wiki, title |-> title]>>,
        outcome |->
          IF r.kind = "raise" THEN r
          ELSE IF ~page.exists THEN Return([error |-> NotExistMessage(title)])
          ELSE Return([title |-> page.title,
                       url |-> page.fullurl,
                       summary |-> page.summary,
                       full_text |-> page.text,
                       categories |-> [i \in 1..Len(page.categories) |-> page.categories[i].title],
                       links |-> PySliceTo(page.links, FullArticleLinkCap),
                       sections |-> [i \in 1..Len(page.sections) |-> page.sections[i].title]])]

\* faulty variant: the summary result also carries the page's url
get_summary_with_url(self, title, resp) ==
    LET r == wiki_page(self.wiki, title, resp)
        page == r.value
    IN [pages |-> <<[wiki |-> self.wiki, title |-> title]>>,
        outcome |->
          IF r.kind = "raise" THEN r
          ELSE IF ~page.exists THEN Return([error |-> NotExistMessage(title)])
          ELSE Return([title |-> page.title,
                       url |-> page.fullurl,
                       summary |-> page.summary])]

\* faulty variant: a fault of the service is caught and reported as an error mapping
get_summary_catching(self, title, resp) ==
    LET r == wiki_page(self.wiki, title, resp)
        page == r.value
    IN [pages |-> <<[wiki |-> self.wiki, title |-> title]>>,
        outcome |->
          IF r.kind = "raise" THEN Return([error |-> r.fault])
          ELSE IF ~page.exists THEN Return([error |-> NotExistMessage(title)])
          ELSE Return([title |-> page.title,
                       summary |-> page.summary])]

get_summary(self, title, resp) ==
    LET r == wiki_page(self.wiki, title, resp)
        page == r.value
    IN [pages |-> <<[wiki |-> self.wiki, title |-> title]>>,
        outcome |->
          IF r.kind = "raise" THEN r
          ELSE IF ~page.exists THEN Return([error |-> NotExistMessage(title)])
          ELSE Return([title |-> page.title,
                       summary |-> page.summary])]

\* faulty variant: the page is asked of a handle for the Config's current language
get_sections_following_config(self, title, resp) ==
    LET handle == [self.wiki EXCEPT !.language = self.config.language]
        r == wiki_page(handle, title, resp)
        page == r.value
    IN [pages |-> <<[wiki |-> handle, title |-> title]>>,
        outcome |->
          IF r.kind = "raise" THEN r
          ELSE IF ~page.exists THEN Return([error |-> NotExistMessage(title)])
          ELSE Return([title |-> page.title,
                       sections |-> [i \in 1..Len(page.sections) |-> page.sections[i].title]])]

\* faulty variant: a missing page is raised as a fault instead of returned
get_sections_raising(self, title, resp) ==
    LET r == wiki_page(self.wiki, title, resp)
        page == r.value
    IN [pages |-> <<[wiki |-> self.wiki, title |-> title]>>,
        outcome |->
          IF r.kind = "raise" THEN r
          ELSE IF ~page.exists THEN Raise(NotExistMessage(title))
          ELSE Return([title |-> page.title,
                       sections |-> [i \in 1..Len(page.sections) |-> page.sections[i].title]])]

get_sections(self, title, resp) ==
    LET r == wiki_page(self.wiki, title, resp)
        page == r.value
    IN [pages |-> <<[wiki |-> self.wiki, title |-> title]>>,
        outcome |->
          IF r.kind = "raise" THEN r
          ELSE IF ~page.exists THEN Return([error |-> NotExistMessage(title)])
          ELSE Return([title |-> page.title,
                       sections |-> [i \in 1..Len(page.sections) |-> page.sections[i].title]])]

\* faulty variant: total_links counts the truncated list
get_links_counting_returned(self, title, limit, resp) ==
    LET r == wiki_page(self.wiki, title, resp)
        page == r.value
    IN [pages |-> <<[wiki |-> self.wiki, title |-> title]>>,
        outcome |->
          IF r.kind = "raise" THEN r
          ELSE IF ~page.exists THEN Return([error |-> NotExistMessage(title)])
          ELSE LET links == IF Truthy(limit) THEN PySliceTo(page.links, limit[1])
                            ELSE page.links
               IN Return([title |-> page.title,
                          links |-> links,
                          total_links |-> Len(links)])]

get_links(self, title, limit, resp) ==
    LET r == wiki_page(self.wiki, title, resp)
        page == r.value
    IN [pages |-> <<[wiki |-> self.wiki, title |-> title]>>,
        outcome |->
          IF r.kind = "raise" THEN r
          ELSE IF ~page.exists THEN Return([error |-> NotExistMessage(title)])
          ELSE LET links == IF Truthy(limit) THEN PySliceTo(page.links, limit[1])
                            ELSE page.links
               IN Return([title |-> page.title,
                          links |-> links,
                          total_links |-> Len(page.links)])]

\* faulty variant: the handle is built from the language stored before the update
set_language_stale(self, language, serial, ok) ==
    LET c == Config_set_language(self.config, language)
        r == Wikipedia(USER_AGENT, self.config.language, serial, ok)
    IN [config |-> c,
        wiki |-> IF r.kind = "return" THEN r.value ELSE self.wiki,
        acquisitions |-> 1,
        outcome |-> IF r.kind = "return" THEN Return(None) ELSE r]

\* faulty variant: the handle is acquired first, so a failure leaves the Config as it was
set_language_atomic(self, language, serial, ok) ==
    LET r == Wikipedia(USER_AGENT, language, serial, ok)
    IN [config |-> IF r.kind = "return" THEN Config_set_language(self.config, language)
                   ELSE self.config,
        wiki |-> IF r.kind = "return" THEN r.value ELSE self.wiki,
        acquisitions |-> 1,
        outcome |-> IF r.kind = "return" THEN Return(None) ELSE r]

\* WikiArticles.set_language: the Config update, then the new handle; when the
\* constructor raises, the assignment to self.wiki does not happen
set_language(self, language, serial, ok) ==
    LET c == Config_set_language(self.config, language)
        r == Wikipedia(USER_AGENT, c.language, serial, ok)
    IN [config |-> c,
        wiki |-> IF r.kind = "return" THEN r.value ELSE self.wiki,
        acquisitions |-> 1,
        outcome |-> IF r.kind = "return" THEN Return(None) ELSE r]

---------------------------------------------------------------------------
(* The state machine *)

Self == [config |-> config, wiki |-> wiki]

NoCall == [op |-> "__init__"]

Init ==
    /\ \E cfg \in {None} \cup {<<Config_init(l)>> : l \in Languages} :
          /\ config = WikiArticles_init(cfg).config
          /\ wiki = WikiArticles_init(cfg).wiki
          /\ hist = [configArg |-> IF cfg = None THEN DefaultLanguage ELSE cfg[1].language,
                     facade |-> None, direct |-> FALSE]
    /\ wikipediaCalls = 1
    /\ fetches = 0
    /\ fetched = <<>>
    /\ reads = 0
    /\ langCalls = 0
    /\ configCalls = 0
    /\ lastCall = NoCall
    /\ outcome = Return(None)

\* what every read operation does with the result of its body
Read(call, r) ==
    /\ reads < MaxReads
    /\ reads' = reads + 1
    /\ fetches' = fetches + Len(r.pages)
    /\ fetched' = r.pages
    /\ lastCall' = call
    /\ outcome' = r.outcome
    /\ UNCHANGED <<config, wiki, wikipediaCalls, langCalls, configCalls, hist>>

GetFullArticle ==
    \E title \in Titles, resp \in Responses :
        Read([op |-> "get_full_article", title |-> title, limit |-> None, resp |-> resp],
             get_full_article(Self, title, resp))

GetSummary ==
    \E title \in Titles, resp \in Responses :
        Read([op |-> "get_summary", title |-> title, limit |-> None, resp |-> resp],
             get_summary(Self, title, resp))

GetSections ==
    \E title \in Titles, resp \in Responses :
        Read([op |-> "get_sections", title |-> title, limit |-> None, resp |-> resp],
             get_sections(Self, title, resp))

GetLinks ==
    \E title \in Titles, limit \in Limits, resp \in Responses :
        Read([op |-> "get_links", title |-> title, limit |-> limit, resp |-> resp],
             get_links(Self, title, limit, resp))

SetLanguage ==
    \E language \in Languages, ok \in BOOLEAN :
        LET r == set_language(Self, language, wikipediaCalls + 1, ok)
        IN /\ langCalls + configCalls < MaxLangOps
           /\ langCalls' = langCalls + 1
           /\ config' = r.config
           /\ wiki' = r.wiki
           /\ wikipediaCalls' = wikipediaCalls + r.acquisitions
           /\ hist' = [configArg |-> language, facade |-> <<language, ok>>, direct |-> FALSE]
           /\ lastCall' = [op |-> "set_language", language |-> language, ok |-> ok,
                           wikiBefore |-> wiki]
           /\ outcome' = r.outcome
           /\ fetched' = <<>>
           /\ UNCHANGED <<fetches, reads, configCalls>>

\* the creator of the Config object calls its set_language directly
ConfigSetLanguage ==
    \E language \in Languages :
        /\ langCalls + configCalls < MaxLangOps
        /\ configCalls' = configCalls + 1
        /\ config' = Config_set_language(config, language)
        /\ hist' = [hist EXCEPT !.configArg = language, !.direct = TRUE]
        /\ lastCall' = [op |-> "Config.set_language", language |-> language]
        /\ outcome' = Return(None)
        /\ fetched' = <<>>
        /\ UNCHANGED <<wiki, wikipediaCalls, fetches, reads, langCalls>>

Next ==
    \/ GetFullArticle
    \/ GetSummary
    \/ GetSections
    \/ GetLinks
    \/ SetLanguage
    \/ ConfigSetLanguage

Spec == Init /\ [][Next]_vars

---------------------------------------------------------------------------
(* Vocabulary of the properties *)

ReadOps == {"get_full_article", "get_summary", "get_sections", "get_links"}

Min(a, b) == IF a < b THEN a ELSE b

\* the most recent invocation was a read operation
IsRead == lastCall.op \in ReadOps

\* ... and the service answered that the page does not exist
ReadAbsent == IsRead /\ lastCall.resp.kind = "absent"

\* ... and the service answered with an existing page
ReadPage == IsRead /\ lastCall.resp.kind = "page"

\* ... and the service raised a transport fault
ReadFault == IsRead /\ lastCall.resp.kind = "fault"

\* the link titles the service reported to the most recent read, in its order
ReportedLinks == ServiceLinks(lastCall.resp.nlinks)

\* the literal message the documentation gives for a missing page
ExpectedError(title) ==
    CASE title = "Atlantis" -> "Page 'Atlantis' does not exist"
      [] title = "python" -> "Page 'python' does not exist"

\* the title and summary the service holds for a requested title
ReportedTitle(title) ==
    CASE title = "Atlantis" -> "Atlantis"
      [] title = "python" -> "Python"

ReportedSummary(title) ==
    CASE title = "Atlantis" -> "Atlantis is a programming language."
      [] title = "python" -> "Python is a programming language."

---------------------------------------------------------------------------
(* C1: when the service reports the requested title as non-existent, each   *)
(* of the four read operations returns normally (it does not raise) the      *)
(* mapping whose only key is 'error' and whose value is                      *)
(* "Page '<title>' does not exist" with the requested title verbatim.        *)
C1_AbsentPageIsErrorMapping ==
    ReadAbsent =>
        /\ outcome.kind = "return"
        /\ DOMAIN outcome.value = {"error"}
        /\ outcome.value.error = ExpectedError(lastCall.title)

C1_Witness ==
    /\ lastCall.op = "get_sections"
    /\ lastCall.resp.kind = "absent"
    /\ lastCall.title = "python"
    /\ outcome = Return([error |-> "Page 'python' does not exist"])

(* C2: for an existing page with n links and a positive limit, get_links     *)
(* returns as 'links' exactly the first min(limit, n) link titles in the     *)
(* order the service returns them.                                           *)
C2_PositiveLimitIsPrefix ==
    (lastCall.op = "get_links" /\ lastCall.resp.kind = "page"
        /\ lastCall.limit # None /\ lastCall.limit[1] > 0) =>
        /\ outcome.kind = "return"
        /\ Len(outcome.value.links) = Min(lastCall.limit[1], lastCall.resp.nlinks)
        /\ \A i \in 1..Len(outcome.value.links) :
              outcome.value.links[i] = ReportedLinks[i]

C2_Witness ==
    /\ lastCall.op = "get_links"
    /\ lastCall.resp.kind = "page"
    /\ lastCall.resp.nlinks = 3
    /\ lastCall.limit = <<1>>
    /\ outcome.value.links = <<LinkAt(1)>>

(* C3: for an existing page, whenever the limit given to get_links is not a  *)
(* positive integer (None, zero or negative), 'links' is all of the page's   *)
(* link titles in service order.                                             *)
C3_NonPositiveLimitIsAll ==
    (lastCall.op = "get_links" /\ lastCall.resp.kind = "page"
        /\ (lastCall.limit = None \/ lastCall.limit[1] <= 0)) =>
        /\ outcome.kind = "return"
        /\ outcome.value.links = ReportedLinks

(* C4: for an existing page, 'total_links' of get_links is the number of     *)
(* links the service reports, whatever the limit is.                         *)
C4_TotalLinksIsFullCount ==
    (lastCall.op = "get_links" /\ lastCall.resp.kind = "page") =>
        /\ outcome.kind = "return"
        /\ outcome.value.total_links = lastCall.resp.nlinks

C4_Witness ==
    /\ lastCall.op = "get_links"
    /\ lastCall.resp.kind = "page"
    /\ lastCall.limit = <<1>>
    /\ lastCall.resp.nlinks = MaxLinks
    /\ Len(outcome.value.links) = 1
    /\ outcome.value.total_links = MaxLinks

(* C5: for an existing page with n links, get_full_article returns as        *)
(* 'links' the first min(20, n) link titles in the service's order.          *)
C5_FullArticleLinksCapped ==
    (lastCall.op = "get_full_article" /\ lastCall.resp.kind = "page") =>
        /\ outcome.kind = "return"
        /\ Len(outcome.value.links) = Min(20, lastCall.resp.nlinks)
        /\ \A i \in 1..Len(outcome.value.links) :
              outcome.value.links[i] = ReportedLinks[i]

C5_Witness ==
    /\ lastCall.op = "get_full_article"
    /\ lastCall.resp.kind = "page"
    /\ lastCall.resp.nlinks > 20
    /\ Len(outcome.value.links) = 20
    /\ outcome.value.links[20] = LinkAt(20)

(* C6: after a successful WikiArticles.set_language(L), and through any read *)
(* operations that follow it, the handle is bound to L and the Config maps   *)
(* to {'language': L}, L being the argument of the most recent call; every   *)
(* call made one acquisition, and the handle held is the one it acquired.    *)
C6_SetLanguageRebinds ==
    /\ wikipediaCalls = 1 + langCalls
    /\ (hist.facade # None /\ hist.facade[2] /\ ~hist.direct) =>
          /\ wiki.language = hist.facade[1]
          /\ Config_to_dict(config) = [language |-> hist.facade[1]]
          /\ wiki.id = wikipediaCalls
          /\ IsRead => fetched[1].wiki.language = hist.facade[1]

C6_Witness ==
    /\ langCalls = 2
    /\ hist.facade = <<"xx-unknown", TRUE>>
    /\ ~hist.direct
    /\ lastCall.op = "get_summary"
    /\ fetched[1].wiki.language = "xx-unknown"
    /\ wiki.id = 3

(* C7: when the acquisition inside WikiArticles.set_language(L) fails, the   *)
(* Config already maps to {'language': L} after the call, and the facade     *)
(* still holds the handle it had before, bound to the previous language.     *)
C7_FailedAcquisitionKeepsHandle ==
    (lastCall.op = "set_language" /\ ~lastCall.ok) =>
        /\ outcome.kind = "raise"
        /\ Config_to_dict(config) = [language |-> lastCall.language]
        /\ wiki = lastCall.wikiBefore

C7_Witness ==
    /\ lastCall.op = "set_language"
    /\ ~lastCall.ok
    /\ lastCall.language = "xx-unknown"
    /\ config.language = "xx-unknown"
    /\ wiki.language = "en"

(* C8: for an existing page, get_summary returns a mapping with exactly the  *)
(* two keys 'title' and 'summary', holding the title and the summary the     *)
(* service reports for the page.                                             *)
C8_SummaryHasTwoKeys ==
    (lastCall.op = "get_summary" /\ lastCall.resp.kind = "page") =>
        /\ outcome.kind = "return"
        /\ DOMAIN outcome.value = {"title", "summary"}
        /\ outcome.value.title = ReportedTitle(lastCall.title)
        /\ outcome.value.summary = ReportedSummary(lastCall.title)

C8_Witness ==
    /\ lastCall.op = "get_summary"
    /\ lastCall.resp.kind = "page"
    /\ lastCall.title = "python"
    /\ outcome = Return([title |-> "Python", summary |-> "Python is a programming language."])

(* C9: a transport fault raised by the service during a read operation       *)
(* reaches the caller as the same fault: it is not turned into an error      *)
(* mapping, the page is requested once only, and the Config and the handle   *)
(* are left as they were.                                                    *)
C9_FaultPropagates ==
    [][(lastCall'.op \in ReadOps /\ reads' = reads + 1 /\ lastCall'.resp.kind = "fault") =>
          /\ outcome' = Raise(lastCall'.resp.fault)
          /\ Len(fetched') = 1
          /\ fetches' = fetches + 1
          /\ config' = config
          /\ wiki' = wiki]_vars

C9_Witness ==
    /\ lastCall.op = "get_summary"
    /\ lastCall.resp = [kind |-> "fault", fault |-> "Timeout"]
    /\ outcome = Raise("Timeout")
    /\ fetches = 1

C11_HandleChangesOnlyBySetLanguage ==
    [][/\ (wiki' # wiki) =>
              (lastCall'.op = "set_language" /\ langCalls' = langCalls + 1)
       /\ (reads' = reads + 1) =>
              /\ config' = config
              /\ wiki' = wiki
              /\ \A i \in 1..Len(fetched') : fetched'[i].wiki = wiki
       /\ (configCalls' = configCalls + 1) =>
              /\ config'.language = lastCall'.language
              /\ wiki' = wiki
              /\ wikipediaCalls' = wikipediaCalls
              /\ fetches' = fetches]_vars

C11_Witness ==
    /\ hist.direct
    /\ lastCall.op = "get_sections"
    /\ config.language = "xx-unknown"
    /\ wiki.language = "en"
    /\ fetched[1].wiki.language = "en"

====
